---- MODULE Spec2Model ----
(***************************************************************************)
(* A model of the SQLite file reader of src/src/main.rs: the varint codec, *)
(* the record decoder, the page decoder, the schema catalog fold and the   *)
(* command pipeline of main.                                               *)
(*                                                                         *)
(* Bytes are integers 0..255.  An i64 is kept at its width as the sequence *)
(* of its 8 big-endian bytes (two's complement), so that shifts drop the   *)
(* bits that leave the word and from_be_bytes is a reinterpretation.       *)
(* Strings are kept as TLA+ strings, a String buffer as the sequence of    *)
(* the pieces written to it.                                               *)
(***************************************************************************)
EXTENDS Integers, Sequences, FiniteSets, TLC

VARIABLES
    \* varint codec run
    vbuf, vi, vin, vout,
    \* record decoder run (one cell of parse_cell_as_rows)
    cell, overflowChecks, rpc, ri, serial_size, serials, rf, rvals, bodyStart,
    rmismatch, rlast,
    \* page decoder run
    pfile, fpos, dbinfo, pidx, ppage, pcell, nreads,
    \* catalog build (Tables::new over the rows of page 0)
    schema, tables, cic, cf, cpc,
    \* command pipeline run (main)
    mfile, command, mpc, mdb, mt, mpage, mqi, mout, mlog, mexit, mselres

varsVarint == <<vbuf, vi, vin, vout>>
varsRecord == <<cell, overflowChecks, rpc, ri, serial_size, serials, rf, rvals,
                bodyStart, rmismatch, rlast>>
varsPage == <<pfile, fpos, dbinfo, pidx, ppage, pcell, nreads>>
varsCatalog == <<schema, tables, cic, cf, cpc>>
varsMain == <<mfile, command, mpc, mdb, mt, mpage, mqi, mout, mlog, mexit, mselres>>
vars == <<varsVarint, varsRecord, varsPage, varsCatalog, varsMain>>

None == [tag |-> "None"]

Min(a, b) == IF a < b THEN a ELSE b

RECURSIVE Pow2(_)
Pow2(n) == IF n = 0 THEN 1 ELSE 2 * Pow2(n - 1)

\* &buf[i..]: the bytes of buf from 0-based index i on
SliceFrom(buf, i) == SubSeq(buf, i + 1, Len(buf))

(***************************************************************************)
(* i64 arithmetic on the 8 big-endian bytes of the word                    *)
(***************************************************************************)
I64Zero == <<0, 0, 0, 0, 0, 0, 0, 0>>

\* res << 7: bit n of the result is bit n-7 of res; the top 7 bits are lost
I64Shl7(v) ==
    << (v[1] % 2) * 128 + (v[2] \div 2), (v[2] % 2) * 128 + (v[3] \div 2),
       (v[3] % 2) * 128 + (v[4] \div 2), (v[4] % 2) * 128 + (v[5] \div 2),
       (v[5] % 2) * 128 + (v[6] \div 2), (v[6] % 2) * 128 + (v[7] \div 2),
       (v[7] % 2) * 128 + (v[8] \div 2), (v[8] % 2) * 128 >>

\* whether adding x (0..255) to the lowest byte carries into byte k
\* (1 = most significant)
I64CarryInto(v, x, k) == v[8] + x >= 256 /\ \A m \in (k + 1)..7 : v[m] = 255

I64IncIf(c, b) == IF c THEN (b + 1) % 256 ELSE b

\* res + x for a byte-sized x, wrapping at 64 bits
I64AddByte(v, x) ==
    << I64IncIf(I64CarryInto(v, x, 1), v[1]), I64IncIf(I64CarryInto(v, x, 2), v[2]),
       I64IncIf(I64CarryInto(v, x, 3), v[3]), I64IncIf(I64CarryInto(v, x, 4), v[4]),
       I64IncIf(I64CarryInto(v, x, 5), v[5]), I64IncIf(I64CarryInto(v, x, 6), v[6]),
       I64IncIf(I64CarryInto(v, x, 7), v[7]), (v[8] + x) % 256 >>

\* whether res + x leaves the range of i64 (x >= 0): a non-negative res
\* whose sum has the sign bit set
I64AddOverflows(v, x) == v[1] < 128 /\ I64AddByte(v, x)[1] >= 128

\* a small non-negative integer as an i64
I64FromInt(n) ==
    <<0, 0, 0, 0, (n \div 16777216) % 256, (n \div 65536) % 256,
      (n \div 256) % 256, n % 256>>

\* an i64 within 0 .. 2^31 - 1 as an integer (as usize, and the serial types
\* matched on); the varints of the bounded cells are of at most 4 bytes
I64ToInt(v) == v[5] * 16777216 + v[6] * 65536 + v[7] * 256 + v[8]

(***************************************************************************)
(* decode_varint                                                           *)
(***************************************************************************)
VarintMaxBytes == 9

\* buf[i - 1] & 0x7F kept all 8 bits: a wrong mask
PayloadBitsAllEight(b) == b % 256

\* buf[i - 1] & 0x7F
PayloadBits(b) == b % 128

\* buf[i - 1] & 0x80 == 0
HighBitClear(b) == (b \div 128) % 2 = 0

\* the loop of decode_varint from the state (i, res); ovf records whether an
\* addition left the range of i64 (a panic of a build with overflow checks)
RECURSIVE VarintLoop(_, _, _, _)
VarintLoop(buf, i, res, ovf) ==
    IF i < VarintMaxBytes /\ i < Len(buf)
    THEN LET b    == buf[i + 1]
             sh   == I64Shl7(res)
             r2   == I64AddByte(sh, PayloadBits(b))
             o2   == ovf \/ I64AddOverflows(sh, PayloadBits(b))
         IN  IF HighBitClear(b)
             THEN [value |-> r2, len |-> i + 1, overflow |-> o2]
             ELSE VarintLoop(buf, i + 1, r2, o2)
    ELSE [value |-> res, len |-> i, overflow |-> ovf]

decode_varint(buf) == VarintLoop(buf, 0, I64Zero, FALSE)

(***************************************************************************)
(* The varint codec run: the decoder is applied at a cursor that advances  *)
(* by the length it returns, as parse_cell_as_rows applies it.             *)
(***************************************************************************)
MaxShortLen == 3
MaxLongLen == 10
ShortBytes == {0, 7, 23, 27, 71, 120, 128, 129, 255}
LongBytes == {71, 129, 255}

VarintBuffers ==
    UNION {[1..n -> ShortBytes] : n \in 1..MaxShortLen}
    \cup UNION {[1..n -> LongBytes] : n \in 1..MaxLongLen}

IdleVarint == vbuf = <<>> /\ vi = 0 /\ vin = <<>> /\ vout = None

InitVarint ==
    /\ vbuf \in VarintBuffers
    /\ vi = 0
    /\ vin = <<>>
    /\ vout = None

\* let (v, j) = decode_varint(&buf[i..]); i += j;
DecodeAtCursor ==
    /\ vi < Len(vbuf)
    /\ vin' = SliceFrom(vbuf, vi)
    /\ vout' = decode_varint(SliceFrom(vbuf, vi))
    /\ vi' = vi + decode_varint(SliceFrom(vbuf, vi)).len
    /\ UNCHANGED vbuf
    /\ UNCHANGED <<varsRecord, varsPage, varsCatalog, varsMain>>

(***************************************************************************)
(* ColType, col_value and serial_type_size                                 *)
(***************************************************************************)
Null == [tag |-> "Null"]
Integer(v) == [tag |-> "Integer", v |-> v]
Float(bits) == [tag |-> "Float", bits |-> bits]
Blob(size) == [tag |-> "Blob", size |-> size]
Text(s) == [tag |-> "Text", s |-> s]
Panic(why) == [tag |-> "Panic", why |-> why]

IsPanic(x) == x.tag = "Panic"

\* buf[start..end] exists: start <= end <= buf.len()
SliceInRange(buf, start, end) == start <= end /\ end <= Len(buf)

\* buf[start..end] as a sequence
Slice(buf, start, end) == SubSeq(buf, start + 1, end)

IsContinuation(b) == b >= 128 /\ b <= 191

\* String::from_utf8 accepts the bytes
RECURSIVE Utf8Valid(_)
Utf8Valid(bs) ==
    IF bs = <<>> THEN TRUE
    ELSE LET b == bs[1]
             n == Len(bs)
         IN  IF b < 128 THEN Utf8Valid(Tail(bs))
             ELSE IF b >= 194 /\ b <= 223
             THEN n >= 2 /\ IsContinuation(bs[2]) /\ Utf8Valid(SubSeq(bs, 3, n))
             ELSE IF b >= 224 /\ b <= 239
             THEN /\ n >= 3
                  /\ IsContinuation(bs[2]) /\ IsContinuation(bs[3])
                  /\ (b = 224 => bs[2] >= 160)
                  /\ (b = 237 => bs[2] <= 159)
                  /\ Utf8Valid(SubSeq(bs, 4, n))
             ELSE IF b >= 240 /\ b <= 244
             THEN /\ n >= 4
                  /\ IsContinuation(bs[2]) /\ IsContinuation(bs[3])
                  /\ IsContinuation(bs[4])
                  /\ (b = 240 => bs[2] >= 144)
                  /\ (b = 244 => bs[2] <= 143)
                  /\ Utf8Valid(SubSeq(bs, 5, n))
             ELSE FALSE

\* i64::from_be_bytes(buf[start..start + n].try_into().unwrap()): the slice is
\* taken, converted to [u8; 8] (an Err unless it holds 8 bytes) and unwrapped
FromBeBytes(buf, start, n) ==
    IF ~SliceInRange(buf, start, start + n) THEN Panic("slice index out of range")
    ELSE IF n # 8 THEN Panic("try_into [u8; 8]: TryFromSliceError")
    ELSE Integer(Slice(buf, start, start + n))

\* f64::from_be_bytes(buf[start..start + 8].try_into().unwrap())
FloatFromBeBytes(buf, start) ==
    IF ~SliceInRange(buf, start, start + 8) THEN Panic("slice index out of range")
    ELSE Float(Slice(buf, start, start + 8))

\* String::from_utf8(buf[start..start + len].to_vec()).unwrap()
TextFromBytes(buf, start, len) ==
    IF ~SliceInRange(buf, start, start + len) THEN Panic("slice index out of range")
    ELSE IF ~Utf8Valid(Slice(buf, start, start + len)) THEN Panic("FromUtf8Error")
    ELSE Text(Slice(buf, start, start + len))

col_value(serial_type, buf, start) ==
    CASE serial_type = 0 -> Null
      [] serial_type = 1 ->
            IF start < Len(buf)
            THEN Integer(<<0, 0, 0, 0, 0, 0, 0, buf[start + 1]>>)
            ELSE Panic("index out of bounds")
      [] serial_type = 2 -> FromBeBytes(buf, start, 2)
      [] serial_type = 3 -> FromBeBytes(buf, start, 3)
      [] serial_type = 4 -> FromBeBytes(buf, start, 4)
      [] serial_type = 5 -> FromBeBytes(buf, start, 6)
      [] serial_type = 6 -> FromBeBytes(buf, start, 8)
      [] serial_type = 7 -> FloatFromBeBytes(buf, start)
      [] serial_type = 8 -> Integer(I64Zero)
      [] serial_type = 9 -> Integer(I64Zero)
      [] serial_type \in {10, 11} -> Panic("not implemented")
      [] serial_type >= 12 /\ serial_type % 2 = 0 -> Blob((serial_type - 12) \div 2)
      [] serial_type >= 13 /\ serial_type % 2 = 1 ->
            TextFromBytes(buf, start, (serial_type - 13) \div 2)
      [] OTHER -> Panic("unreachable")

\* the usize returned, or -1 where the function panics
serial_type_size(serial_type) ==
    CASE serial_type = 0 -> 0
      [] serial_type = 1 -> 1
      [] serial_type = 2 -> 2
      [] serial_type = 3 -> 3
      [] serial_type = 4 -> 4
      [] serial_type = 5 -> 6
      [] serial_type = 6 -> 7
      [] serial_type = 7 -> 8
      [] serial_type = 8 -> 0
      [] serial_type = 9 -> 0
      [] serial_type \in {10, 11} -> -1
      [] serial_type >= 12 /\ serial_type % 2 = 0 -> (serial_type - 12) \div 2
      [] serial_type >= 13 /\ serial_type % 2 = 1 -> (serial_type - 13) \div 2
      [] OTHER -> -1

(***************************************************************************)
(* usize subtraction.  A build with overflow checks panics when a < b; a   *)
(* build without them wraps modulo 2^64.  A wrapped counter is kept as the *)
(* negative representative d of 2^64 + d, so that "> 0" on the usize is    *)
(* "# 0" on the representative, and taking a few bytes off a wrapped value *)
(* does not underflow again.                                               *)
(***************************************************************************)
USizeSubUnderflows(a, b) == a >= 0 /\ a < b

USizeSub(a, b) == a - b

USizePositive(a) == a # 0

(***************************************************************************)
(* The record decoder: the body of the cell loop of parse_cell_as_rows,    *)
(* over buf = &page[offset..], with a callback that collects the columns.  *)
(***************************************************************************)
MaxCols == 2
TypeBytes == {0, 1, 2, 3, 4, 5, 6, 7, 8, 9, 10, 12, 13, 14, 15, 17, 129}
CellPrefixes == {<<5, 1>>, <<129, 0, 129, 1>>}
CellBodies == {<<65, 255, 1, 128, 127, 98, 200, 3, 0, 66, 67, 68>>,
               <<97, 98, 99, 100, 101, 102, 103, 104, 105, 106, 107, 108>>}

CellBuffers ==
    {p \o <<h>> \o t \o b :
        p \in CellPrefixes, h \in 0..(MaxCols + 2),
        t \in UNION {[1..n -> TypeBytes] : n \in 0..MaxCols},
        b \in CellBodies}

InitRecord ==
    /\ cell \in CellBuffers
    /\ overflowChecks \in BOOLEAN
    /\ rpc = "start"
    /\ ri = 0
    /\ serial_size = 0
    /\ serials = <<>>
    /\ rf = 0
    /\ rvals = <<>>
    /\ bodyStart = 0
    /\ rmismatch = FALSE
    /\ rlast = None

\* lines 73-83: the payload size, the row id and the header size, then
\* serial_size = header_size as usize - j
ReadCellPrefix ==
    /\ rpc = "start"
    /\ LET size   == decode_varint(cell)
           i1     == size.len
           rowid  == decode_varint(SliceFrom(cell, i1))
           i2     == i1 + rowid.len
           header == decode_varint(SliceFrom(cell, i2))
           i3     == i2 + header.len
           hs     == I64ToInt(header.value)
       IN  /\ ri' = i3
           /\ rmismatch' = USizeSubUnderflows(hs, header.len)
           /\ IF USizeSubUnderflows(hs, header.len) /\ overflowChecks
              THEN rpc' = "panic" /\ UNCHANGED serial_size
              ELSE rpc' = "serials" /\ serial_size' = USizeSub(hs, header.len)
    /\ UNCHANGED <<cell, overflowChecks, serials, rf, rvals, bodyStart, rlast>>
    /\ UNCHANGED <<varsVarint, varsPage, varsCatalog, varsMain>>

\* lines 85-90: one iteration of the serial-type loop.  At the end of the
\* buffer decode_varint returns (0, 0): the iteration changes neither i nor
\* serial_size and the loop pushes serial types without end.
ReadSerialType ==
    /\ rpc = "serials"
    /\ USizePositive(serial_size)
    /\ LET st == decode_varint(SliceFrom(cell, ri))
       IN  IF st.len = 0
           THEN /\ rpc' = "diverge"
                /\ UNCHANGED <<ri, serial_size, serials, rmismatch>>
           ELSE /\ ri' = ri + st.len
                /\ rmismatch' = (rmismatch \/ USizeSubUnderflows(serial_size, st.len))
                /\ IF USizeSubUnderflows(serial_size, st.len) /\ overflowChecks
                   THEN rpc' = "panic" /\ UNCHANGED <<serial_size, serials>>
                   ELSE /\ rpc' = "serials"
                        /\ serial_size' = USizeSub(serial_size, st.len)
                        /\ serials' = Append(serials, I64ToInt(st.value))
    /\ UNCHANGED <<cell, overflowChecks, rf, rvals, bodyStart, rlast>>
    /\ UNCHANGED <<varsVarint, varsPage, varsCatalog, varsMain>>

\* line 91: the loop has ended, so serial_size is 0 and assert_eq! passes
AssertSerialSize ==
    /\ rpc = "serials"
    /\ ~USizePositive(serial_size)
    /\ serial_size = 0
    /\ rpc' = "body"
    /\ bodyStart' = ri
    /\ rf' = 0
    /\ UNCHANGED <<cell, overflowChecks, ri, serial_size, serials, rvals,
                   rmismatch, rlast>>
    /\ UNCHANGED <<varsVarint, varsPage, varsCatalog, varsMain>>

\* lines 94-99: one column of the record body
DecodeColumn ==
    /\ rpc = "body"
    /\ rf < Len(serials)
    /\ LET t    == serials[rf + 1]
           size == serial_type_size(t)
           v    == col_value(t, cell, ri)
       IN  IF size < 0
           THEN rpc' = "panic" /\ UNCHANGED <<ri, rf, rvals, rlast>>
           ELSE /\ rlast' = [t |-> t, start |-> ri, v |-> v]
                /\ IF IsPanic(v)
                   THEN rpc' = "panic" /\ UNCHANGED <<ri, rf, rvals>>
                   ELSE /\ ri' = ri + size
                        /\ rvals' = Append(rvals, v)
                        /\ rf' = rf + 1
                        /\ rpc' = "body"
    /\ UNCHANGED <<cell, overflowChecks, serial_size, serials, bodyStart, rmismatch>>
    /\ UNCHANGED <<varsVarint, varsPage, varsCatalog, varsMain>>

\* line 100: state.on_row()
FinishRow ==
    /\ rpc = "body"
    /\ rf = Len(serials)
    /\ rpc' = "done"
    /\ UNCHANGED <<cell, overflowChecks, ri, serial_size, serials, rf, rvals,
                   bodyStart, rmismatch, rlast>>
    /\ UNCHANGED <<varsVarint, varsPage, varsCatalog, varsMain>>

IdleRecord ==
    /\ cell = <<>> /\ overflowChecks = FALSE /\ rpc = "idle" /\ ri = 0
    /\ serial_size = 0 /\ serials = <<>> /\ rf = 0 /\ rvals = <<>>
    /\ bodyStart = 0 /\ rmismatch = FALSE /\ rlast = None


(***************************************************************************)
(* The file, the header reader and the page decoder, on bytes.  A file is  *)
(* given by its page size, its text encoding, the cell count of each page  *)
(* and a seed for every byte the format leaves free; its bytes are         *)
(* FileByte(f, pos).  The handle keeps a position that seek sets and       *)
(* read_exact advances.                                                    *)
(***************************************************************************)
FileHeaderLen == 100
PageHeaderLen == 8

NumPages == 2
MaxCells == 2
MaxReads == 2
PageSizes == {512, 1024}
FileSeeds == {1, 2}
FileEncodings == {1, 2}

Files ==
    [page_size : PageSizes, seed : FileSeeds, text_encoding : FileEncodings,
     cells : [0..(NumPages - 1) -> 0..MaxCells]]

FileLen(f) == NumPages * f.page_size

\* a byte the format leaves free
NoiseByte(f, pos) == (pos * 37 + f.seed * 101) % 256

\* a cell pointer of the file: some offset within the page
NoisePointer(f, pos) == (pos * 149 + f.seed * 211) % f.page_size

FileByte(f, pos) ==
    LET p   == pos \div f.page_size
        rel == (pos % f.page_size) - (IF p = 0 THEN FileHeaderLen ELSE 0)
        k   == (rel - PageHeaderLen) \div 2
    IN  CASE pos = 16 -> f.page_size \div 256
          [] pos = 17 -> f.page_size % 256
          [] pos \in 56..58 -> 0
          [] pos = 59 -> f.text_encoding
          [] rel = 0 -> 13
          [] rel = 3 -> 0
          [] rel = 4 -> f.cells[p]
          [] rel >= PageHeaderLen /\ rel < PageHeaderLen + 2 * f.cells[p] ->
                IF (rel - PageHeaderLen) % 2 = 0
                THEN NoisePointer(f, pos) \div 256
                ELSE NoisePointer(f, pos - 1) % 256
          [] OTHER -> NoiseByte(f, pos)

\* u16::from_be_bytes / u32::from_be_bytes
U16FromBe(b) == b[1] * 256 + b[2]
U32FromBe(b) == ((b[1] * 256 + b[2]) * 256 + b[3]) * 256 + b[4]

\* reader.seek(SeekFrom::Start(offset)): the new position of the handle
Seek(pos, offset) == offset

\* reader.read_exact(&mut buf) for a buffer of n bytes at position pos
ReadExact(f, pos, n) ==
    IF pos + n <= FileLen(f)
    THEN [ok |-> TRUE, bytes |-> [k \in 1..n |-> FileByte(f, pos + k - 1)],
          pos |-> pos + n]
    ELSE [ok |-> FALSE, bytes |-> <<>>, pos |-> FileLen(f)]

\* the offset of the page header within the page: &page[100..108] or &page[0..8]
PageHeaderBase(idx) == IF idx = 0 THEN FileHeaderLen ELSE 0

\* page_after_fh taken as the whole page also for page 0
PageAfterFhWholePage(idx) == 0

\* the offset within the page at which page_after_fh starts
PageAfterFhBase(idx) == IF idx = 0 THEN FileHeaderLen ELSE 0

\* lines 234-241: the cell-pointer array read from page_after_fh[8..]
CellOffsets(page, idx, cell_num) ==
    [k \in 1..cell_num |->
        U16FromBe(Slice(page, PageAfterFhBase(idx) + PageHeaderLen + 2 * (k - 1),
                              PageAfterFhBase(idx) + PageHeaderLen + 2 * k))]

\* parse_page(idx, reader, dbinfo) with the handle at fpos: the result and the
\* handle's position afterwards
parse_page(idx, f, pos, page_size) ==
    LET offset == idx * page_size
        rd     == ReadExact(f, Seek(pos, offset), page_size)
        page   == rd.bytes
        hb     == PageHeaderBase(idx)
        header == Slice(page, hb, hb + PageHeaderLen)
        cell_num == U16FromBe(Slice(header, 3, 5))
    IN  IF ~rd.ok THEN [tag |-> "Err", why |-> "io", pos |-> rd.pos]
        ELSE IF ~SliceInRange(page, hb, hb + PageHeaderLen)
        THEN [tag |-> "Panic", why |-> "slice index out of range", pos |-> rd.pos]
        ELSE IF header[1] \notin {10, 13}
        THEN [tag |-> "Panic", why |-> "we only support leaf page now", pos |-> rd.pos]
        ELSE IF PageAfterFhBase(idx) + PageHeaderLen + 2 * cell_num > Len(page)
        THEN [tag |-> "Panic", why |-> "slice index out of range", pos |-> rd.pos]
        ELSE [tag |-> "Ok", pos |-> rd.pos,
              page_type |-> header[1],
              freeblock_start |-> U16FromBe(Slice(header, 1, 3)),
              cell_num |-> cell_num,
              cell_content_area |-> U16FromBe(Slice(header, 5, 7)),
              cell_offsets |-> CellOffsets(page, idx, cell_num),
              page |-> page]

\* line 74: buf = &page[*offset as usize..]
CellBuf(page, offset) == SliceFrom(page, offset)

InitPage ==
    /\ pfile \in Files
    /\ fpos = 0
    /\ dbinfo = None
    /\ pidx = 0
    /\ ppage = None
    /\ pcell = None
    /\ nreads = 0

IdlePage ==
    /\ pfile = None /\ fpos = 0 /\ dbinfo = None /\ pidx = 0 /\ ppage = None
    /\ pcell = None /\ nreads = 0

\* parse_dbinfo, lines 188-203: the header is read at offset 0 and the text
\* encoding checked before the page size is taken
ReadFileHeader ==
    /\ pfile # None
    /\ dbinfo = None
    /\ LET rd == ReadExact(pfile, Seek(fpos, 0), FileHeaderLen)
           text_encoding == U32FromBe(Slice(rd.bytes, 56, 60))
       IN  /\ fpos' = rd.pos
           /\ dbinfo' = IF text_encoding # 1
                        THEN Panic("unsupported text encoding")
                        ELSE [tag |-> "Ok",
                              page_size |-> U16FromBe(Slice(rd.bytes, 16, 18)),
                              text_encoding |-> text_encoding]
    /\ UNCHANGED <<pfile, pidx, ppage, pcell, nreads>>
    /\ UNCHANGED <<varsVarint, varsRecord, varsCatalog, varsMain>>

\* one call of parse_page, on any page index (one past the last page included)
ParsePage(idx) ==
    /\ dbinfo # None /\ dbinfo.tag = "Ok"
    /\ nreads < MaxReads
    /\ LET r == parse_page(idx, pfile, fpos, dbinfo.page_size)
       IN  /\ ppage' = r
           /\ fpos' = r.pos
    /\ pidx' = idx
    /\ pcell' = None
    /\ nreads' = nreads + 1
    /\ UNCHANGED <<pfile, dbinfo>>
    /\ UNCHANGED <<varsVarint, varsRecord, varsCatalog, varsMain>>

\* lines 72-74: the record decoder takes the buffer of cell k of the page
TakeCell(k) ==
    /\ ppage # None /\ ppage.tag = "Ok"
    /\ k \in 1..Len(ppage.cell_offsets)
    /\ pcell' = IF ppage.cell_offsets[k] > Len(ppage.page)
                THEN Panic("slice start out of range")
                ELSE [tag |-> "Ok", k |-> k, offset |-> ppage.cell_offsets[k],
                      buf |-> CellBuf(ppage.page, ppage.cell_offsets[k])]
    /\ UNCHANGED <<pfile, fpos, dbinfo, pidx, ppage, nreads>>
    /\ UNCHANGED <<varsVarint, varsRecord, varsCatalog, varsMain>>

(***************************************************************************)
(* parser::parse_create.  A sql text is the sequence of its tokens (words  *)
(* in lower case and punctuation), white space dropped.                    *)
(***************************************************************************)
Punctuation == {"(", ")", ",", ";"}

IsWord(tok) == tok \notin Punctuation

\* body.split(','): the chunks of a token sequence between commas
RECURSIVE SplitCommas(_, _)
SplitCommas(toks, cur) ==
    IF toks = <<>> THEN <<cur>>
    ELSE IF toks[1] = "," THEN <<cur>> \o SplitCommas(Tail(toks), <<>>)
    ELSE SplitCommas(Tail(toks), Append(cur, toks[1]))

\* lines 126-140: the column definitions of the chunks; an empty chunk is
\* skipped, a chunk that does not start with a word is an error
RECURSIVE ColumnDefs(_)
ColumnDefs(chunks) ==
    IF chunks = <<>> THEN [ok |-> TRUE, columns |-> <<>>]
    ELSE LET c    == chunks[1]
             rest == ColumnDefs(Tail(chunks))
         IN  IF c = <<>> THEN rest
             ELSE IF ~IsWord(c[1]) \/ ~rest.ok THEN [ok |-> FALSE, columns |-> <<>>]
             ELSE [ok |-> TRUE,
                   columns |->
                     <<[name |-> c[1],
                        ty |-> IF Len(c) >= 2 /\ IsWord(c[2]) THEN c[2] ELSE ""]>>
                     \o rest.columns]

\* CREATE_RE: create table <word> ( body ) with an optional ; at the end
parse_create(sql) ==
    LET n    == IF sql # <<>> /\ sql[Len(sql)] = ";" THEN Len(sql) - 1 ELSE Len(sql)
        defs == ColumnDefs(SplitCommas(SubSeq(sql, 5, n - 1), <<>>))
    IN  IF /\ n >= 5
           /\ sql[1] = "create" /\ sql[2] = "table" /\ IsWord(sql[3])
           /\ sql[4] = "(" /\ sql[n] = ")"
           /\ defs.ok
        THEN [ok |-> TRUE, table |-> sql[3], columns |-> defs.columns]
        ELSE [ok |-> FALSE, table |-> "", columns |-> <<>>]

(***************************************************************************)
(* Tables: the catalog built from the rows of page 0.  A HashMap is a      *)
(* function on its keys.                                                   *)
(***************************************************************************)
EmptyMap == <<>>

MapInsert(m, k, v) == (k :> v) @@ m

HasKey(m, k) == k \in DOMAIN m

\* CreateTableStmt::default()
DefaultCreate == [table |-> "", columns |-> <<>>]

\* Tables::new, lines 107-116
NewTables(table_count) ==
    [table_count |-> table_count,
     cur_tbl_name |-> "", cur_rootpage |-> 0, cur_create |-> DefaultCreate,
     display |-> <<>>, pos |-> EmptyMap, content |-> EmptyMap, panic |-> ""]

\* row != table_count with the - 1 forgotten
NotLastRowOffByOne(row, table_count) == row # table_count

\* line 37: row != self.dbinfo.table_count as usize - 1
NotLastRow(row, table_count) == row # table_count - 1

\* Tables::on_col, lines 30-53
TablesOnCol(tb, row, col, v) ==
    CASE col = 2 ->
           LET t1 == IF v.tag = "Text"
                     THEN [tb EXCEPT !.display = Append(@, v.s),
                                     !.cur_tbl_name = v.s]
                     ELSE tb
           IN  IF NotLastRow(row, tb.table_count)
               THEN [t1 EXCEPT !.display = Append(@, " ")]
               ELSE t1
      [] col = 3 ->
           IF v.tag = "Integer"
           THEN [tb EXCEPT !.cur_rootpage = I64ToInt(v.v)]
           ELSE tb
      [] col = 4 ->
           IF v.tag = "Text"
           THEN IF parse_create(v.s).ok
                THEN [tb EXCEPT !.cur_create =
                         [table |-> parse_create(v.s).table,
                          columns |-> parse_create(v.s).columns]]
                ELSE [tb EXCEPT !.panic = "parse create err"]
           ELSE tb
      [] OTHER -> tb

\* Tables::on_row, lines 55-64
TablesOnRow(tb) ==
    LET t1 == [tb EXCEPT !.pos = MapInsert(@, tb.cur_tbl_name, tb.cur_rootpage)]
    IN  IF tb.cur_tbl_name # tb.cur_create.table
        THEN [t1 EXCEPT !.panic = "create table name should be consistent"]
        ELSE [t1 EXCEPT !.content = MapInsert(@, tb.cur_tbl_name, tb.cur_create)]

\* parse_cell_as_rows(p, &mut tables) from cell ic, column f on: every column
\* of every row in order, on_row after each row, up to the first panic
RECURSIVE TablesFold(_, _, _, _)
TablesFold(tb, rows, ic, f) ==
    IF tb.panic # "" \/ ic >= Len(rows) THEN tb
    ELSE IF f < Len(rows[ic + 1])
    THEN TablesFold(TablesOnCol(tb, ic, f, rows[ic + 1][f + 1]), rows, ic, f + 1)
    ELSE TablesFold(TablesOnRow(tb), rows, ic + 1, 0)

(***************************************************************************)
(* The rows of page 0: (type, name, tbl_name, rootpage, sql)               *)
(***************************************************************************)
MaxSchemaRows == 3

SqlCreateT == <<"create", "table", "t", "(", "a", ",", "b", ")">>
SqlCreateU == <<"create", "table", "u", "(", "x", "int", ",", "y", "text", ")", ";">>
SqlCreateIndex == <<"create", "index", "i", "on", "t", "(", "a", ")">>

SchemaSqls == {Text(SqlCreateT), Text(SqlCreateU), Text(SqlCreateIndex), Null}

SchemaRow(tbl_name, rootpage, sql) ==
    << Text(IF sql.tag = "Text" /\ parse_create(sql.s).ok THEN "table" ELSE "index"),
       Text(tbl_name), Text(tbl_name), Integer(I64FromInt(rootpage)), sql >>

SchemaRows == {SchemaRow(n, r, q) : n \in {"t", "u"}, r \in {2, 3}, q \in SchemaSqls}

InitCatalog ==
    /\ schema \in UNION {[1..n -> SchemaRows] : n \in 0..MaxSchemaRows}
    /\ tables = NewTables(Len(schema))
    /\ cic = 0
    /\ cf = 0
    /\ cpc = "rows"

IdleCatalog ==
    /\ schema = <<>> /\ tables = None /\ cic = 0 /\ cf = 0 /\ cpc = "idle"

\* line 98: state.on_col(ic, f, &v) for the next column of the current row
CatalogOnCol ==
    /\ cpc = "rows"
    /\ cic < Len(schema)
    /\ cf < Len(schema[cic + 1])
    /\ tables' = TablesOnCol(tables, cic, cf, schema[cic + 1][cf + 1])
    /\ cpc' = IF tables'.panic # "" THEN "panic" ELSE "rows"
    /\ cf' = cf + 1
    /\ UNCHANGED <<schema, cic>>
    /\ UNCHANGED <<varsVarint, varsRecord, varsPage, varsMain>>

\* line 100: state.on_row() after the last column of the row
CatalogOnRow ==
    /\ cpc = "rows"
    /\ cic < Len(schema)
    /\ cf = Len(schema[cic + 1])
    /\ tables' = TablesOnRow(tables)
    /\ cpc' = IF tables'.panic # "" THEN "panic" ELSE "rows"
    /\ cic' = cic + 1
    /\ cf' = 0
    /\ UNCHANGED schema
    /\ UNCHANGED <<varsVarint, varsRecord, varsPage, varsMain>>

\* line 102: state.finalize() after the last cell
CatalogFinalize ==
    /\ cpc = "rows"
    /\ cic = Len(schema)
    /\ cpc' = "done"
    /\ UNCHANGED <<schema, tables, cic, cf>>
    /\ UNCHANGED <<varsVarint, varsRecord, varsPage, varsMain>>

(***************************************************************************)
(* The command pipeline of main, on decoded values.  A file is given by    *)
(* its text encoding, the rows of page 0 and the number of cells of every  *)
(* table page; cell k of a table page holds the row DataRow(k).  The log   *)
(* records every read of the file and every run of the record decoder.     *)
(***************************************************************************)
MaxDataCells == 3
MaxQueryCols == 2

\* the row id of the cell at position k of the cell-pointer array: not sorted
DataRowId(k) == ((k * 2) % 5) + 1

\* the record of cell k: two Integer columns, one for every third cell
DataRow(k) ==
    IF k % 3 = 0
    THEN <<Integer(I64FromInt(100 * DataRowId(k)))>>
    ELSE <<Integer(I64FromInt(100 * DataRowId(k))),
           Integer(I64FromInt(100 * DataRowId(k) + 1))>>

DataCells(n) == [k \in 1..n |-> DataRow(k)]

MainSchemas ==
    { <<>>,
      <<SchemaRow("t", 2, Text(SqlCreateT)), SchemaRow("u", 3, Text(SqlCreateU))>>,
      <<SchemaRow("t", 2, Text(SqlCreateT)), SchemaRow("t", 3, Null)>>,
      <<SchemaRow("t", 2, Text(SqlCreateT)), SchemaRow("t", 3, Text(SqlCreateIndex))>> }

MainFiles ==
    [text_encoding : {1, 2, 3}, schema : MainSchemas, ncells : 0..MaxDataCells]

\* the statements: parse_select gives a table and a column list, or fails
SelectStmts ==
    [table : {"t", "u", "v"},
     columns : UNION {[1..n -> {"a", "b", "A", "x"}] : n \in 1..MaxQueryCols}]

Commands ==
    {[kind |-> ".dbinfo"], [kind |-> ".tables"], [kind |-> ".other"],
     [kind |-> "statement", parsed |-> FALSE]}
    \cup {[kind |-> "statement", parsed |-> TRUE, select |-> q] : q \in SelectStmts}

\* the check of line 192 dropped: every encoding is let through
EncodingUnchecked(text_encoding) == TRUE

\* line 192: the header is let through only with text_encoding == 1
EncodingSupported(text_encoding) == text_encoding = 1

\* impl fmt::Display for ColType, on the variants the table pages hold; a
\* non-negative Integer prints as its decimal value
Display(v) ==
    CASE v.tag = "Integer" -> I64ToInt(v.v)
      [] v.tag = "Null" -> "NULL"
      [] v.tag = "Reserved" -> "RESERVED"
      [] v.tag = "Text" -> v.s

\* ColPrint::on_col, lines 158-163: the lines printed for one column
ColPrintOnCol(col_index, req, row, col, v) ==
    IF col # col_index THEN <<>>
    ELSE <<[kind |-> "value", req |-> req, cell |-> row, text |-> Display(v)]>>

\* the columns f.. of one record handed to ColPrint in column order
RECURSIVE ColPrintRow(_, _, _, _, _)
ColPrintRow(col_index, req, row, rec, f) ==
    IF f >= Len(rec) THEN <<>>
    ELSE ColPrintOnCol(col_index, req, row, f, rec[f + 1])
         \o ColPrintRow(col_index, req, row, rec, f + 1)

\* the cells visited from the last cell pointer to the first
RECURSIVE ParseCellAsRowsReversed(_, _, _, _)
ParseCellAsRowsReversed(cells, col_index, req, ic) ==
    IF ic >= Len(cells) THEN <<>>
    ELSE ParseCellAsRowsReversed(cells, col_index, req, ic + 1)
         \o ColPrintRow(col_index, req, ic, cells[ic + 1], 0)

\* parse_cell_as_rows(&p, &mut cp), lines 69-103: the lines printed for the
\* cells ic.. of the page in the order of cell_offsets
RECURSIVE ParseCellAsRowsColPrint(_, _, _, _)
ParseCellAsRowsColPrint(cells, col_index, req, ic) ==
    IF ic >= Len(cells) THEN <<>>
    ELSE ColPrintRow(col_index, req, ic, cells[ic + 1], 0)
         \o ParseCellAsRowsColPrint(cells, col_index, req, ic + 1)

\* lines 137-142: the index of the first column of the schema entry whose
\* name is col, or -1 (None)
FindColumn(columns, col) ==
    LET hits == {k \in 1..Len(columns) : columns[k].name = col}
    IN  IF hits = {} THEN -1
        ELSE (CHOOSE k \in hits : \A m \in hits : k <= m) - 1

InitMain ==
    /\ mfile \in MainFiles
    /\ command \in Commands
    /\ mpc = "start"
    /\ mdb = None
    /\ mt = None
    /\ mpage = None
    /\ mqi = 0
    /\ mout = <<>>
    /\ mlog = <<>>
    /\ mexit = "running"
    /\ mselres = None

IdleMain ==
    /\ mfile = None /\ command = None /\ mpc = "idle" /\ mdb = None /\ mt = None
    /\ mpage = None /\ mqi = 0 /\ mout = <<>> /\ mlog = <<>> /\ mexit = "idle"
    /\ mselres = None

mainRest == <<mdb, mt, mpage, mqi, mout, mselres>>

\* lines 264-267 and 279-280: the file is opened and the command matched; a
\* statement is parsed before anything is read
MainDispatch ==
    /\ mpc = "start" /\ mexit = "running"
    /\ CASE command.kind \in {".dbinfo", ".tables"} ->
              mpc' = "dbinfo_header" /\ UNCHANGED mexit
         [] command.kind = "statement" /\ command.parsed ->
              mpc' = "dbinfo_header" /\ UNCHANGED mexit
         [] command.kind = "statement" /\ ~command.parsed ->
              mexit' = "panic: parse select err" /\ UNCHANGED mpc
         [] OTHER ->
              mexit' = "err: Missing or invalid command passed" /\ UNCHANGED mpc
    /\ UNCHANGED <<mfile, command, mlog, mainRest>>
    /\ UNCHANGED <<varsVarint, varsRecord, varsPage, varsCatalog>>

\* parse_dbinfo, lines 188-203: the 100 header bytes are read and the text
\* encoding checked
ParseDbinfoHeader ==
    /\ mpc = "dbinfo_header" /\ mexit = "running"
    /\ mlog' = Append(mlog, [op |-> "read_header"])
    /\ IF EncodingSupported(mfile.text_encoding)
       THEN mpc' = "dbinfo_page" /\ UNCHANGED mexit
       ELSE mexit' = "panic: unsupported text encoding" /\ UNCHANGED mpc
    /\ UNCHANGED <<mfile, command, mainRest>>
    /\ UNCHANGED <<varsVarint, varsRecord, varsPage, varsCatalog>>

\* parse_dbinfo, lines 205-208: page 0 is parsed for its cell count
ParseDbinfoPage ==
    /\ mpc = "dbinfo_page" /\ mexit = "running"
    /\ mlog' = Append(mlog, [op |-> "parse_page", idx |-> 0])
    /\ mdb' = [text_encoding |-> mfile.text_encoding,
               table_count |-> Len(mfile.schema)]
    /\ mpc' = IF command.kind = ".dbinfo" THEN "print_dbinfo" ELSE "page0"
    /\ UNCHANGED <<mfile, command, mt, mpage, mqi, mout, mexit, mselres>>
    /\ UNCHANGED <<varsVarint, varsRecord, varsPage, varsCatalog>>

\* lines 270-271
PrintDbinfo ==
    /\ mpc = "print_dbinfo" /\ mexit = "running"
    /\ mout' = mout \o <<[kind |-> "page size"],
                         [kind |-> "number of tables", n |-> mdb.table_count]>>
    /\ mexit' = "ok"
    /\ UNCHANGED <<mfile, command, mpc, mdb, mt, mpage, mqi, mlog, mselres>>
    /\ UNCHANGED <<varsVarint, varsRecord, varsPage, varsCatalog>>

\* lines 275 and 284: main parses page 0 again
MainParsePage0 ==
    /\ mpc = "page0" /\ mexit = "running"
    /\ mlog' = Append(mlog, [op |-> "parse_page", idx |-> 0])
    /\ mpc' = "tables_new"
    /\ UNCHANGED <<mfile, command, mexit, mainRest>>
    /\ UNCHANGED <<varsVarint, varsRecord, varsPage, varsCatalog>>

\* lines 276 and 285: Tables::new decodes every cell of page 0
MainTablesNew ==
    /\ mpc = "tables_new" /\ mexit = "running"
    /\ mlog' = Append(mlog, [op |-> "decode", idx |-> 0])
    /\ mt' = TablesFold(NewTables(mdb.table_count), mfile.schema, 0, 0)
    /\ IF mt'.panic # ""
       THEN mexit' = "panic: " \o mt'.panic /\ UNCHANGED mpc
       ELSE /\ mpc' = IF command.kind = ".tables" THEN "print_tables" ELSE "select"
            /\ UNCHANGED mexit
    /\ UNCHANGED <<mfile, command, mdb, mpage, mqi, mout, mselres>>
    /\ UNCHANGED <<varsVarint, varsRecord, varsPage, varsCatalog>>

\* line 277
PrintTables ==
    /\ mpc = "print_tables" /\ mexit = "running"
    /\ mout' = Append(mout, [kind |-> "display", pieces |-> mt.display])
    /\ mexit' = "ok"
    /\ UNCHANGED <<mfile, command, mpc, mdb, mt, mpage, mqi, mlog, mselres>>
    /\ UNCHANGED <<varsVarint, varsRecord, varsPage, varsCatalog>>

\* Tables::select, lines 124-135: the schema entry and the root page are
\* looked up with expect, and the root page is parsed
SelectLookup ==
    /\ mpc = "select" /\ mexit = "running"
    /\ IF ~HasKey(mt.content, command.select.table)
          \/ ~HasKey(mt.pos, command.select.table)
       THEN /\ mexit' = "panic: cannot find table"
            /\ mselres' = [tag |-> "Called"]
            /\ UNCHANGED <<mpc, mpage, mlog>>
       ELSE /\ mpage' = [idx |-> mt.pos[command.select.table] - 1,
                         cells |-> DataCells(mfile.ncells)]
            /\ mlog' = Append(mlog, [op |-> "parse_page",
                                     idx |-> mt.pos[command.select.table] - 1])
            /\ mselres' = [tag |-> "Called"]
            /\ mpc' = "select_cols"
            /\ UNCHANGED mexit
    /\ UNCHANGED <<mfile, command, mdb, mt, mqi, mout>>
    /\ UNCHANGED <<varsVarint, varsRecord, varsPage, varsCatalog>>

\* Tables::select, lines 136-147: one requested column; an unknown column
\* returns the error, a known one scans the page
SelectColumn ==
    /\ mpc = "select_cols" /\ mexit = "running"
    /\ mqi < Len(command.select.columns)
    /\ LET t   == mt.content[command.select.table]
           idx == FindColumn(t.columns, command.select.columns[mqi + 1])
       IN  IF idx < 0
           THEN /\ mselres' = [tag |-> "Err", kind |-> "cannot find column"]
                /\ mpc' = "fallback"
                /\ UNCHANGED <<mqi, mout, mlog>>
           ELSE /\ mlog' = Append(mlog, [op |-> "decode", idx |-> mpage.idx])
                /\ mout' = mout \o ParseCellAsRowsColPrint(mpage.cells, idx, mqi, 0)
                /\ mqi' = mqi + 1
                /\ UNCHANGED <<mpc, mselres>>
    /\ UNCHANGED <<mfile, command, mdb, mt, mpage, mexit>>
    /\ UNCHANGED <<varsVarint, varsRecord, varsPage, varsCatalog>>

\* Tables::select, line 149: Ok(()) after the last column
SelectReturnsOk ==
    /\ mpc = "select_cols" /\ mexit = "running"
    /\ mqi = Len(command.select.columns)
    /\ mselres' = [tag |-> "Ok"]
    /\ mexit' = "ok"
    /\ UNCHANGED <<mfile, command, mpc, mdb, mt, mpage, mqi, mout, mlog>>
    /\ UNCHANGED <<varsVarint, varsRecord, varsPage, varsCatalog>>

\* lines 286-292: on an error of select main prints the cell count of the
\* table's root page
SelectFallback ==
    /\ mpc = "fallback" /\ mexit = "running"
    /\ mlog' = Append(mlog, [op |-> "parse_page",
                             idx |-> mt.pos[command.select.table] - 1])
    /\ mout' = Append(mout, [kind |-> "cell count", n |-> mfile.ncells])
    /\ mexit' = "ok"
    /\ UNCHANGED <<mfile, command, mpc, mdb, mt, mpage, mqi, mselres>>
    /\ UNCHANGED <<varsVarint, varsRecord, varsPage, varsCatalog>>

(***************************************************************************)
(* The specifications: one run of each component on bounded inputs         *)
(***************************************************************************)
InitVarintRun == InitVarint /\ IdleRecord /\ IdlePage /\ IdleCatalog /\ IdleMain

NextVarint == DecodeAtCursor

SpecVarint == InitVarintRun /\ [][NextVarint]_vars

InitRecordRun == InitRecord /\ IdleVarint /\ IdlePage /\ IdleCatalog /\ IdleMain

NextRecord ==
    \/ ReadCellPrefix
    \/ ReadSerialType
    \/ AssertSerialSize
    \/ DecodeColumn
    \/ FinishRow

SpecRecord == InitRecordRun /\ [][NextRecord]_vars

InitPageRun == InitPage /\ IdleVarint /\ IdleRecord /\ IdleCatalog /\ IdleMain

NextPage ==
    \/ ReadFileHeader
    \/ \E idx \in 0..NumPages : ParsePage(idx)
    \/ \E k \in 1..MaxCells : TakeCell(k)

SpecPage == InitPageRun /\ [][NextPage]_vars

InitCatalogRun == InitCatalog /\ IdleVarint /\ IdleRecord /\ IdlePage /\ IdleMain

NextCatalog ==
    \/ CatalogOnCol
    \/ CatalogOnRow
    \/ CatalogFinalize

SpecCatalog == InitCatalogRun /\ [][NextCatalog]_vars

InitMainRun == InitMain /\ IdleVarint /\ IdleRecord /\ IdlePage /\ IdleCatalog

NextMain ==
    \/ MainDispatch
    \/ ParseDbinfoHeader
    \/ ParseDbinfoPage
    \/ PrintDbinfo
    \/ MainParsePage0
    \/ MainTablesNew
    \/ PrintTables
    \/ SelectLookup
    \/ SelectColumn
    \/ SelectReturnsOk
    \/ SelectFallback

SpecMain == InitMainRun /\ [][NextMain]_vars

Init == InitVarintRun

Next == NextVarint

Spec == SpecVarint

(***************************************************************************)
(* The claims about the varint codec                                       *)
(***************************************************************************)
\* bit n (0 = least significant) of an i64
I64Bit(v, n) == (v[8 - (n \div 8)] \div Pow2(n % 8)) % 2

\* the 7-bit group j (0 = least significant) of an i64: bits 7j .. 7j+6
I64Group7(v, j) ==
    I64Bit(v, 7 * j) + 2 * I64Bit(v, 7 * j + 1) + 4 * I64Bit(v, 7 * j + 2)
    + 8 * I64Bit(v, 7 * j + 3) + 16 * I64Bit(v, 7 * j + 4)
    + 32 * I64Bit(v, 7 * j + 5) + 64 * I64Bit(v, 7 * j + 6)

\* the 1-based position of the first byte of buf with the high bit clear,
\* capped at 9 and at the length of buf
ExpectedVarintLen(buf) ==
    LET stops == {k \in 1..Len(buf) : buf[k] < 128}
        first == IF stops = {} THEN Len(buf)
                 ELSE CHOOSE k \in stops : \A m \in stops : k <= m
    IN  Min(Min(first, 9), Len(buf))

\* C1: on every non-empty buffer decode_varint does not fail and returns the
\* length that is the position of the first byte with a clear high bit, capped
\* at 9 and at the buffer length, and the value whose 7-bit groups are the low
\* 7 bits of the consumed bytes, most significant first, with nothing above
\* them; [0x78] -> (120, 1), [0x07] -> (7, 1), [0x81, 0x47] -> (199, 2).
C1_VarintDecodes ==
    vout # None =>
        LET n == ExpectedVarintLen(vin)
        IN  /\ Len(vin) >= 1
            /\ ~vout.overflow
            /\ vout.len = n
            /\ 1 <= n /\ n <= Min(9, Len(vin))
            /\ \A j \in 1..n : I64Group7(vout.value, n - j) = vin[j] % 128
            /\ \A b \in (7 * n)..63 : I64Bit(vout.value, b) = 0
            /\ (vin = <<120>> => vout.value = I64FromInt(120) /\ vout.len = 1)
            /\ (vin = <<7>> => vout.value = I64FromInt(7) /\ vout.len = 1)
            /\ (vin = <<129, 71>> => vout.value = I64FromInt(199) /\ vout.len = 2)

\* a buffer of more than 9 continuation bytes was decoded: the cap at 9 acted
C1_Witness ==
    /\ vout # None
    /\ Len(vin) > 9
    /\ \A k \in 1..9 : vin[k] >= 128
    /\ vout.len = 9
    /\ vout.value[2] = 255

(***************************************************************************)
(* The serial-type table of the record format, for the claims about the    *)
(* record decoder                                                          *)
(***************************************************************************)
\* the byte width the table gives a serial type
TableWidth(t) ==
    CASE t = 0 -> 0
      [] t = 1 -> 1
      [] t = 2 -> 2
      [] t = 3 -> 3
      [] t = 4 -> 4
      [] t = 5 -> 6
      [] t = 6 -> 8
      [] t = 7 -> 8
      [] t \in {8, 9} -> 0
      [] t >= 12 /\ t % 2 = 0 -> (t - 12) \div 2
      [] t >= 13 /\ t % 2 = 1 -> (t - 13) \div 2
      [] OTHER -> 0

RECURSIVE SumTableWidths(_, _)
SumTableWidths(ts, n) ==
    IF n = 0 THEN 0 ELSE SumTableWidths(ts, n - 1) + TableWidth(ts[n])

\* a big-endian two's complement integer of 1..8 bytes, sign-extended to i64
SignExtend(bytes) ==
    [k \in 1..(8 - Len(bytes)) |-> IF bytes[1] >= 128 THEN 255 ELSE 0] \o bytes

IntegerTypes == {1, 2, 3, 4, 5, 6, 8, 9}

\* the i64 the table gives an integer serial type at buf[start..]
TableInteger(t, buf, start) ==
    CASE t = 8 -> I64Zero
      [] t = 9 -> I64FromInt(1)
      [] OTHER -> SignExtend(Slice(buf, start, start + TableWidth(t)))

\* the header-size varint of a cell and where it starts
CellHeaderStart(buf) ==
    LET size == decode_varint(buf)
    IN  size.len + decode_varint(SliceFrom(buf, size.len)).len

CellHeaderSize(buf) ==
    I64ToInt(decode_varint(SliceFrom(buf, CellHeaderStart(buf))).value)

\* C2: while the record body is decoded the cursor advances by the table
\* width of each serial type (8 bytes for type 6), so after any number of
\* columns it is at the body start plus the sum of the table widths of the
\* columns decoded so far.
C2_CursorAdvancesByTableWidth ==
    rpc \in {"body", "done"} => ri = bodyStart + SumTableWidths(serials, rf)

\* C3: for every integer serial type whose bytes are in the buffer col_value
\* yields, without failing, the Integer of the table: the sign-extended
\* big-endian integer of the type's width, 0 for type 8 and 1 for type 9.
C3_IntegerValuesFollowTable ==
    (/\ rlast # None
     /\ rlast.t \in IntegerTypes
     /\ rlast.start + TableWidth(rlast.t) <= Len(cell))
    => rlast.v = Integer(TableInteger(rlast.t, cell, rlast.start))

\* C9: the serial-type loop ends when the bytes it consumed equal the header
\* size minus the length of the header-size varint; a mismatch is reported as
\* a malformed-record error, the remaining-byte counter never goes below zero
\* or wraps, and the body is not decoded after a mismatch.
C9_HeaderMismatchIsMalformedRecord ==
    /\ serial_size >= 0
    /\ rmismatch => rpc = "malformed record"
    /\ rpc \in {"body", "done"} =>
           bodyStart = CellHeaderStart(cell) + CellHeaderSize(cell)

\* a record whose serial types are all in the table was decoded to its end
\* without type 6: the formula of C2 holds there (kept for comparison)
RecordWithoutType6CursorFollowsTable ==
    (rpc \in {"body", "done"} /\ \A k \in 1..rf : serials[k] # 6)
    => ri = bodyStart + SumTableWidths(serials, rf)

(***************************************************************************)
(* The claims about the page decoder                                       *)
(***************************************************************************)
\* the big-endian 16-bit integer at byte pos of the file
FileU16(f, pos) == FileByte(f, pos) * 256 + FileByte(f, pos + 1)

\* C10: parse_page reads the pageSize bytes at index * pageSize whatever was
\* read before; the page header is at page bytes 100..108 and the cell-pointer
\* array at page byte 108 for index 0, at bytes 0..8 and byte 8 for any other
\* index; it yields the cellCount big-endian 16-bit offsets in array order,
\* and the record decoder takes a cell's buffer at that offset from page byte 0.
C10_PageDecodedAtIndexTimesPageSize ==
    (ppage # None /\ ppage.tag = "Ok") =>
        LET ps   == pfile.page_size
            base == pidx * ps
            hb   == IF pidx = 0 THEN 100 ELSE 0
            arr  == IF pidx = 0 THEN 108 ELSE 8
        IN  /\ dbinfo.page_size = ps
            /\ Len(ppage.page) = ps
            /\ \A k \in 1..ps : ppage.page[k] = FileByte(pfile, base + k - 1)
            /\ ppage.page_type = FileByte(pfile, base + hb)
            /\ ppage.cell_num = FileU16(pfile, base + hb + 3)
            /\ ppage.cell_num = pfile.cells[pidx]
            /\ Len(ppage.cell_offsets) = ppage.cell_num
            /\ \A k \in 1..ppage.cell_num :
                   ppage.cell_offsets[k] = FileU16(pfile, base + arr + 2 * (k - 1))
            /\ (pcell # None /\ pcell.tag = "Ok") =>
                   /\ pcell.offset = FileU16(pfile, base + arr + 2 * (pcell.k - 1))
                   /\ Len(pcell.buf) = ps - pcell.offset
                   /\ \A j \in 1..Len(pcell.buf) :
                          pcell.buf[j] = FileByte(pfile, base + pcell.offset + j - 1)

\* page 0 was parsed after an earlier read, it has two cells, and the record
\* decoder took the buffer of its second cell at an offset of two bytes
C10_Witness ==
    /\ ppage # None /\ ppage.tag = "Ok"
    /\ nreads >= 2
    /\ pidx = 0
    /\ ppage.cell_num = 2
    /\ pcell # None /\ pcell.tag = "Ok"
    /\ pcell.k = 2
    /\ pcell.offset >= 256

(***************************************************************************)
(* The claims about the catalog                                            *)
(***************************************************************************)
\* the table and the column names a sql text of the rows creates, if any
CreatedTable(sql) ==
    IF sql = Text(SqlCreateT) THEN [is_table |-> TRUE, table |-> "t", names |-> <<"a", "b">>]
    ELSE IF sql = Text(SqlCreateU) THEN [is_table |-> TRUE, table |-> "u", names |-> <<"x", "y">>]
    ELSE [is_table |-> FALSE, table |-> "", names |-> <<>>]

ColumnNames(columns) == [k \in 1..Len(columns) |-> columns[k].name]

\* C6: once the catalog is built, the entry of every table name t has the
\* rootPage (column 3) and the columns (parsed from column 4) of one schema
\* row whose own sql is CREATE TABLE text naming t; a row without such sql
\* adds no entry and changes none, and nothing of an earlier row is kept in a
\* later row's entry.
C6_EntriesComeFromCreateTableRows ==
    cpc = "done" =>
        \A t \in DOMAIN tables.pos :
            \E k \in 1..Len(schema) :
                /\ CreatedTable(schema[k][5]).is_table
                /\ CreatedTable(schema[k][5]).table = t
                /\ tables.pos[t] = I64ToInt(schema[k][4].v)
                /\ HasKey(tables.content, t)
                /\ ColumnNames(tables.content[t].columns) = CreatedTable(schema[k][5]).names

\* names joined by single spaces
RECURSIVE JoinWithSpaces(_)
JoinWithSpaces(names) ==
    IF names = <<>> THEN <<>>
    ELSE IF Len(names) = 1 THEN <<names[1]>>
    ELSE <<names[1], " ">> \o JoinWithSpaces(Tail(names))

SchemaNames(rows) == [k \in 1..Len(rows) |-> rows[k][3].s]

\* the rows whose column 2 has been handed to on_col
NamesSeen == cic + (IF cf > 2 THEN 1 ELSE 0)

\* C7: the display string built over the cells of page 0 is the table names
\* (column 2) in cell-pointer order joined by single spaces, with no separator
\* after the last name; while it is built it is the names seen so far, each
\* but the last of the page followed by its separator.
C7_DisplayIsNamesJoinedBySpaces ==
    cpc \in {"rows", "done", "panic"} =>
        /\ tables.display =
              JoinWithSpaces(SubSeq(SchemaNames(schema), 1, NamesSeen))
              \o (IF NamesSeen >= 1 /\ NamesSeen < Len(schema) THEN <<" ">> ELSE <<>>)
        /\ cpc = "done" => tables.display = JoinWithSpaces(SchemaNames(schema))

\* a catalog of three rows with different names was built to its end
C7_Witness ==
    /\ cpc = "done"
    /\ Len(schema) = 3
    /\ schema[1][3].s # schema[2][3].s
    /\ Len(tables.display) = 5

(***************************************************************************)
(* The claims about the command pipeline                                   *)
(***************************************************************************)
\* the position of a column in the CREATE TABLE text of its table
ColumnPosition(table, col) ==
    CASE table = "t" /\ col = "a" -> 0
      [] table = "t" /\ col = "b" -> 1
      [] table = "u" /\ col = "x" -> 0
      [] table = "u" /\ col = "y" -> 1
      [] OTHER -> -1

ValueLines == {i \in 1..Len(mout) : mout[i].kind = "value"}

\* C4: a select prints each row's value for an earlier-requested column
\* before that row's value for a later-requested column, and for each
\* requested column the rows' values in the order of the cell-pointer array;
\* every line is the value of the requested column in its cell, once.
C4_ProjectionKeepsRequestAndCellOrder ==
    /\ \A i \in ValueLines : \A j \in ValueLines :
           /\ (mout[i].cell = mout[j].cell /\ mout[i].req < mout[j].req) => i < j
           /\ (mout[i].req = mout[j].req /\ mout[i].cell < mout[j].cell) => i < j
           /\ (mout[i].req = mout[j].req /\ mout[i].cell = mout[j].cell) => i = j
    /\ \A i \in ValueLines :
           LET c == ColumnPosition(command.select.table,
                                   command.select.columns[mout[i].req + 1])
           IN  /\ c >= 0
               /\ mout[i].cell \in 0..(mfile.ncells - 1)
               /\ mout[i].text = 100 * DataRowId(mout[i].cell + 1) + c
    /\ mpc = "select_cols" =>
           \A r \in 0..(mqi - 1) : \A cl \in 0..(mfile.ncells - 1) :
               ColumnPosition(command.select.table, command.select.columns[r + 1])
                   < Len(DataRow(cl + 1))
               => \E i \in ValueLines : mout[i].req = r /\ mout[i].cell = cl

\* SELECT b, a FROM t over a page of three cells returned Ok: the first row's
\* b came before its a, and the rows are not in the order of their values
C4_Witness ==
    /\ mselres = [tag |-> "Ok"]
    /\ command.select.columns = <<"b", "a">>
    /\ mfile.ncells = 3
    /\ Len(mout) = 5
    /\ mout[1].req = 0 /\ mout[3].req = 1 /\ mout[1].cell = mout[3].cell
    /\ mout[4].text > mout[5].text

\* C5: a select of a table name that is not in the catalog yields the
\* TableNotFound error, and one of a column name that matches no column of
\* the schema entry the ColumnNotFound error, each returned to the caller and
\* neither aborting the process.
C5_LookupFailuresAreReturnedErrors ==
    mselres # None =>
        /\ ~HasKey(mt.content, command.select.table) =>
               /\ mselres = [tag |-> "Err", kind |-> "cannot find table"]
               /\ mexit # "panic: cannot find table"
        /\ mpc = "fallback" =>
               mselres = [tag |-> "Err", kind |-> "cannot find column"]

\* C8: with a text encoding other than 1 in the header, whatever the command,
\* the run parses no page and decodes no record: the header read is the only
\* access to the file, and the run does not get past it.
C8_UnsupportedEncodingReadsNoPage ==
    mfile.text_encoding # 1 =>
        /\ \A k \in 1..Len(mlog) : mlog[k].op = "read_header"
        /\ mpc \in {"start", "dbinfo_header"}
        /\ mdb = None /\ mt = None /\ mout = <<>>

\* a statement on a file with another encoding was rejected at the header
C8_Witness ==
    /\ mfile.text_encoding # 1
    /\ command.kind = "statement"
    /\ mexit = "panic: unsupported text encoding"
    /\ mlog = <<[op |-> "read_header"]>>

====
